---- MODULE Spec2Model ----
(***************************************************************************)
(* Image-to-3D pipeline of MacroAI: the protocol client (one socket to the *)
(* Blender MCP server), the asset builder (create / texture / animate /    *)
(* export) of ImageTo3DPipeline and Simple3DPipeline, and the entry points *)
(* of process_images.py (main, batch_process).  The remote engine and the  *)
(* byte stream of the socket are modelled as the environment.              *)
(***************************************************************************)
EXTENDS Integers, Sequences, FiniteSets, TLC

\* ------------------------------------------------------------------ bounds
MaxImages == 3
MaxLong == 1
MaxCalls == 4
MaxContourPts == 5

\* ----------------------------------------------------------------- domains
Progs == {"batch", "single", "simple", "api", "medical"}
Stems == {"a", "b"}
Exts == {"png", "jpg", "jpeg"}
\* The files a folder may hold: two of one stem (png, jpg), a second png and a jpeg.
Files == {f \in [stem : Stems, ext : Exts] : f.stem = "a" => f.ext # "jpeg"} \ {[stem |-> "b", ext |-> "jpg"]}
AnimArgs == {"dance", "bounce", "spin", "pulse", "wobble"}
\* What may follow the theme on the --batch command line (never read); it
\* is varied for the folders of one image only.
BatchArgs(listing) == IF Len(listing) = 1 THEN {"dance", "spin"} ELSE {"dance"}
NoShape == "none"
NoContours == [n |-> 0, largest_contour |-> 0, approx |-> 0]
NoCommand == [type |-> "none", arg |-> "none"]

\* Directory listing order of the files of a folder (name order).
StemRank(s) == IF s = "a" THEN 0 ELSE 1
ExtRank(e) == IF e = "jpeg" THEN 0 ELSE IF e = "jpg" THEN 1 ELSE 2
FileRank(f) == 3 * StemRank(f.stem) + ExtRank(f.ext)

Listings(n) == {s \in [1..n -> Files] : \A i \in 1..(n - 1) : FileRank(s[i]) < FileRank(s[i + 1])}

Folders == UNION {Listings(n) : n \in 1..MaxImages}

\* ---------------------------------------------------------- pure functions
RECURSIVE SelectExt(_, _)
\* Path.glob("*.<ext>"): the files of the listing with that suffix, in order.
SelectExt(listing, e) ==
    IF listing = <<>> THEN <<>>
    ELSE IF Head(listing).ext = e
         THEN <<Head(listing)>> \o SelectExt(Tail(listing), e)
         ELSE SelectExt(Tail(listing), e)

\* batch_process: for ext in ['*.png', '*.jpg', '*.jpeg']: extend(glob(ext)).
EntryImageFiles(listing) ==
    SelectExt(listing, "png") \o SelectExt(listing, "jpg") \o SelectExt(listing, "jpeg")

\* process_batch_images: png_files + jpg_files.
BatchImageFiles(listing) ==
    SelectExt(listing, "png") \o SelectExt(listing, "jpg")

\* analyze_image: the shape class from the contours found.
ShapeType(nContours, rawLen, approxLen) ==
    IF nContours > 0
    THEN IF rawLen > 4
         THEN IF approxLen = 3 THEN "triangle"
              ELSE IF approxLen = 4 THEN "rectangle"
              ELSE IF approxLen > 4 THEN "complex"
              ELSE "circle"
         ELSE "circle"
    ELSE "complex"

\* ImageTo3DPipeline.create_3d_model_from_image: primitive_type of the command.
Primitive(shape) ==
    IF shape = "triangle" THEN "CONE"
    ELSE IF shape = "circle" THEN "SPHERE"
    ELSE IF shape = "rectangle" THEN "CUBE"
    ELSE "CYLINDER_r0.5_h1.5"

\* Simple3DPipeline.create_3d_model_from_image: the primitive of the script
\* (primitive_cone_add, primitive_uv_sphere_add, else primitive_cylinder_add
\* with radius 0.5 and depth 1.5).
SimplePrimitive(shape) ==
    IF shape = "triangle" THEN "CONE"
    ELSE IF shape = "circle" THEN "SPHERE"
    ELSE "CYLINDER_r0.5_h1.5"

AnimationCommands_PulseAsDance(kind) ==
    IF kind = "bounce" THEN <<"location_0_15_30">>
    ELSE IF kind = "spin" THEN <<"rotation_0_60">>
    ELSE <<"scale_0_15_30", "rotation_0_30_60">>

\* ImageTo3DPipeline.add_animations: the add_animation commands of a kind,
\* in the order they are sent.
AnimationCommands(kind) ==
    IF kind = "dance" THEN <<"scale_0_15_30", "rotation_0_30_60">>
    ELSE IF kind = "bounce" THEN <<"location_0_15_30">>
    ELSE IF kind = "spin" THEN <<"rotation_0_60">>
    ELSE IF kind = "pulse" THEN <<"scale_0_20_40">>
    ELSE <<"scale_0_15_30", "rotation_0_30_60">>

\* Simple3DPipeline.add_animations: the script of a kind (one execute_code):
\* dance animates scale and rotation_euler, bounce animates location, the
\* else branch ("Default to dance") animates scale only.
SimpleAnimationScript(kind) ==
    IF kind = "dance" THEN "scale_rotation_script"
    ELSE IF kind = "bounce" THEN "location_script"
    ELSE "scale_script"

Decode_IgnoresTruncation(frags) ==
    IF Len(frags) >= 1 THEN frags[1].status ELSE "none"

\* json.loads(recv(4096).decode()): what the bytes read decode to.  Only one
\* complete response read alone is a JSON document; a head, a tail or several
\* pieces read together raise, and send_blender_command returns None.
Decode(frags) ==
    IF Len(frags) = 1 /\ frags[1].part = "whole" THEN frags[1].status ELSE "none"

CheckResult_NoneRaises(result) ==
    IF result = "success" THEN "ok"
    ELSE IF result \in {"nondict", "none"} THEN "raise"
    ELSE "fail"

\* `not result or result.get('status') != 'success'` on the value returned:
\* "fail" when the test is true, "ok" when false, "raise" when result is a
\* truthy JSON value without .get (AttributeError).
CheckResult(result) ==
    IF result = "success" THEN "ok"
    ELSE IF result = "nondict" THEN "raise"
    ELSE "fail"

\* ------------------------------------------------------------------- state
VARIABLES
    prog,            \* which entry point runs
    folder,          \* directory listing given to the entry point
    animation_type,  \* animation_type parameter of process_image_to_3d
    argv_animation,  \* animation kind the caller put on the command line
    pc,              \* position of the (single) thread
    blender_client,  \* self.blender_client: "none", "unconnected", "open", "closed"
    image_files,     \* process_batch_images: image_files
    idx,             \* process_batch_images: loop position (1-based)
    results,         \* process_batch_images: results (the report)
    batch_failed,    \* batch_process / main: an exception reached the outer except
    image_data,      \* analyze_image's shape_type for the current image
    contours,        \* analyze_image: whether contours were found, the points of
                     \* largest_contour and of its polygon approximation
    cmds,            \* commands handed to send_blender_command for the current image
    command,         \* the command dict of the send_blender_command call in progress
    toEngine,        \* commands written to the socket, not yet answered by the engine
    rxbuf,           \* response bytes waiting in the socket's receive buffer
    link,            \* the TCP connection: "up" or "down"
    nlong,           \* responses longer than the receive buffer produced so far
    oserror_at,      \* analyze_image calls made when send_blender_command first
                     \* swallowed a socket error (-1: none so far)
    analyzed,        \* number of analyze_image calls
    sleeps,          \* number of time.sleep(1) calls
    calls,           \* api driver: the methods called so far
    raised           \* api driver: an exception escaped a method

vars == <<prog, folder, animation_type, argv_animation, pc, blender_client, image_files, idx,
          results, batch_failed, image_data, contours, cmds, command, toEngine, rxbuf,
          link, nlong, oserror_at, analyzed, sleeps, calls, raised>>

\* __init__ of the pipeline object, and the arguments of the entry point.
Init ==
    /\ prog \in Progs
    /\ folder \in CASE prog = "batch" -> Folders
                    [] prog \in {"api", "medical"} -> {<<>>}
                    [] OTHER -> Listings(1)
    /\ animation_type \in CASE prog = "batch" -> {"dance"}
                            [] prog \in {"api", "medical"} -> {"dance"}
                            [] OTHER -> AnimArgs
    /\ argv_animation \in IF prog = "batch" THEN BatchArgs(folder) ELSE {animation_type}
    /\ pc = IF prog = "api" THEN "api" ELSE "connect"
    /\ blender_client = "none"
    /\ image_files = <<>>
    /\ idx = 1
    /\ results = <<>>
    /\ batch_failed = FALSE
    /\ image_data = NoShape
    /\ contours = NoContours
    /\ cmds = <<>>
    /\ command = NoCommand
    /\ toEngine = <<>>
    /\ rxbuf = <<>>
    /\ link = "up"
    /\ nlong = 0
    /\ oserror_at = -1
    /\ analyzed = 0
    /\ sleeps = 0
    /\ calls = <<>>
    /\ raised = FALSE


\* ----------------------------------------------------------------- helpers
NoPath == [stem |-> "", ext |-> "null"]

CurrentImage == IF prog = "batch" THEN image_files[idx] ELSE folder[1]

MarkStale(q) == [i \in 1..Len(q) |-> [q[i] EXCEPT !.stale = TRUE]]

\* The socket can carry data: connected and not torn down.
CanTransmit == blender_client = "open" /\ link = "up"

\* How many pieces one recv(4096) may take from the receive buffer: the head
\* of an over-long response fills the buffer alone; otherwise whatever has
\* arrived so far, up to the next over-long response.
TakeSizes ==
    IF rxbuf = <<>> THEN {}
    ELSE IF rxbuf[1].part = "head" THEN {1}
    ELSE {k \in 1..Len(rxbuf) : \A i \in 1..k : rxbuf[i].part # "head"}

\* send_blender_command, receiving half: the value returned and what stays
\* in the receive buffer.  Any exception of send/recv/decode/loads gives None.
RecvOutcomes ==
    IF ~CanTransmit
    THEN {[result |-> "none", rest |-> rxbuf]}
    ELSE {[result |-> Decode(SubSeq(rxbuf, 1, k)),
           rest |-> SubSeq(rxbuf, k + 1, Len(rxbuf))] : k \in TakeSizes}

\* send_blender_command, sending half: json.dumps(command) written to the socket.
SockSend(type, what, arg) ==
    /\ command' = [type |-> type, arg |-> arg]
    /\ cmds' = Append(cmds, [type |-> type, what |-> what, result |-> "pending"])
    /\ toEngine' = IF CanTransmit
                   THEN Append(toEngine, [type |-> type, stale |-> FALSE])
                   ELSE toEngine
    /\ UNCHANGED <<rxbuf, link, nlong, blender_client, oserror_at>>

\* send_blender_command returns r.result to its caller.
SockReturn(r) ==
    /\ command' = NoCommand
    /\ cmds' = [cmds EXCEPT ![Len(cmds)].result =
                   IF r.result = "success" THEN "success" ELSE "failed"]
    /\ rxbuf' = MarkStale(r.rest)
    /\ toEngine' = MarkStale(toEngine)
    /\ oserror_at' = IF ~CanTransmit /\ oserror_at < 0 THEN analyzed ELSE oserror_at
    /\ UNCHANGED <<link, nlong, blender_client>>

Goto(p) == pc' = p /\ UNCHANGED <<results, idx, batch_failed>>

Raise_EndsBatch(err) ==
    /\ results' = Append(results, [image |-> CurrentImage, usdz |-> NoPath,
                                   status |-> "failed", error |-> err])
    /\ idx' = idx
    /\ pc' = IF prog = "batch" THEN "report" ELSE "close"
    /\ UNCHANGED batch_failed

\* An exception leaves process_image_to_3d: the except clause of the batch
\* loop (process_batch_images) or of main records the failure.
Raise(err) ==
    /\ results' = Append(results, [image |-> CurrentImage, usdz |-> NoPath,
                                   status |-> "failed", error |-> err])
    /\ idx' = IF prog = "batch" THEN idx + 1 ELSE idx
    /\ pc' = IF prog = "batch" THEN "loop" ELSE "close"
    /\ UNCHANGED batch_failed

Succeed_NoArtifact(path) ==
    /\ results' = Append(results, [image |-> CurrentImage, usdz |-> NoPath,
                                   status |-> "success", error |-> "null"])
    /\ idx' = IF prog = "batch" THEN idx + 1 ELSE idx
    /\ pc' = IF prog = "batch" THEN "loop" ELSE "close"
    /\ UNCHANGED batch_failed

\* process_image_to_3d returned path and the caller recorded the success.
Succeed(path) ==
    /\ results' = Append(results, [image |-> CurrentImage, usdz |-> path,
                                   status |-> "success", error |-> "null"])
    /\ idx' = IF prog = "batch" THEN idx + 1 ELSE idx
    /\ pc' = IF prog = "batch" THEN "loop" ELSE "close"
    /\ UNCHANGED batch_failed

args == <<prog, folder, animation_type, argv_animation>>
log == <<cmds, command>>
conn == <<blender_client, toEngine, rxbuf, link, nlong, oserror_at>>
api == <<calls, raised>>

\* --------------------------------------------------------- protocol client
\* connect_to_blender: socket() then connect(); any exception gives False.
ConnectOutcome(o) ==
    /\ blender_client' = CASE o = "ok" -> "open"
                           [] o = "refused" -> "unconnected"
                           [] OTHER -> blender_client
    /\ link' = IF o = "ok" THEN "up" ELSE link
    /\ toEngine' = IF o = "nosocket" THEN toEngine ELSE <<>>
    /\ rxbuf' = IF o = "nosocket" THEN rxbuf ELSE <<>>
    /\ UNCHANGED <<nlong, oserror_at>>

ConnectOutcomes == {"ok", "refused", "nosocket"}

CloseEffect_NoGuard(client) ==
    IF client = "none"
    THEN [client |-> "none", raises |-> TRUE]
    ELSE [client |-> "closed", raises |-> FALSE]

\* close(): `if self.blender_client: self.blender_client.close()`.
CloseEffect(client) ==
    IF client = "none"
    THEN [client |-> "none", raises |-> FALSE]
    ELSE [client |-> "closed", raises |-> FALSE]

CloseSocket ==
    /\ blender_client' = CloseEffect(blender_client).client
    /\ link' = IF blender_client = "open" THEN "down" ELSE link
    /\ toEngine' = IF blender_client = "open" THEN <<>> ELSE toEngine
    /\ rxbuf' = IF blender_client = "open" THEN <<>> ELSE rxbuf
    /\ UNCHANGED <<nlong, oserror_at>>

\* ------------------------------------------------------------ entry points
\* Where each entry point goes on once connected.
AfterConnect ==
    CASE prog = "batch" -> "glob"
      [] prog = "medical" -> "m_makedirs"
      [] OTHER -> "analyze"

connect_to_blender_NoReturn ==
    /\ pc = "connect"
    /\ \E o \in ConnectOutcomes : ConnectOutcome(o)
    /\ pc' = AfterConnect
    /\ UNCHANGED <<args, image_files, idx, results, batch_failed, image_data, contours,
                   log, analyzed, sleeps, api>>

\* main / batch_process / create_medical_devices:
\* `if not pipeline.connect_to_blender(): return`.
connect_to_blender ==
    /\ pc = "connect"
    /\ \E o \in ConnectOutcomes :
          /\ ConnectOutcome(o)
          /\ pc' = IF o # "ok" THEN "done" ELSE AfterConnect
    /\ UNCHANGED <<args, image_files, idx, results, batch_failed, image_data, contours,
                   log, analyzed, sleeps, api>>

\* process_batch_images: the globs; ValueError when no png/jpg file is found,
\* which batch_process catches ("Batch processing failed").
process_batch_images_glob ==
    /\ pc = "glob"
    /\ image_files' = BatchImageFiles(folder)
    /\ idx' = 1
    /\ results' = <<>>
    /\ IF BatchImageFiles(folder) = <<>>
       THEN batch_failed' = TRUE /\ pc' = "close"
       ELSE batch_failed' = FALSE /\ pc' = "loop"
    /\ UNCHANGED <<args, conn, image_data, contours, log, analyzed, sleeps, api>>

process_batch_images_next_SkipsLast ==
    /\ pc = "loop"
    /\ IF idx < Len(image_files)
       THEN pc' = "analyze" /\ cmds' = <<>>
       ELSE pc' = "report" /\ cmds' = cmds
    /\ UNCHANGED <<command, args, conn, image_files, idx, results, batch_failed,
                   image_data, contours, analyzed, sleeps, api>>

\* process_batch_images: `for image_file in image_files`, then return results.
process_batch_images_next ==
    /\ pc = "loop"
    /\ IF idx <= Len(image_files)
       THEN pc' = "analyze" /\ cmds' = <<>>
       ELSE pc' = "report" /\ cmds' = cmds
    /\ UNCHANGED <<command, args, conn, image_files, idx, results, batch_failed,
                   image_data, contours, analyzed, sleeps, api>>

\* batch_process: prints the report entries.
batch_process_report ==
    /\ pc = "report"
    /\ pc' = "close"
    /\ UNCHANGED <<args, conn, image_files, idx, results, batch_failed,
                   image_data, contours, log, analyzed, sleeps, api>>

close_NoFinally ==
    /\ pc = "close"
    /\ pc' = "done"
    /\ UNCHANGED <<args, conn, image_files, idx, results, batch_failed, image_data,
                   contours, log, analyzed, sleeps, api>>

\* finally: pipeline.close()
close ==
    /\ pc = "close"
    /\ CloseSocket
    /\ pc' = "done"
    /\ UNCHANGED <<args, image_files, idx, results, batch_failed, image_data, contours,
                   log, analyzed, sleeps, api>>

\* ---------------------------------------------------------- shape analysis
\* analyze_image: ValueError when cv2.imread gives None.
analyze_image ==
    /\ pc = "analyze"
    /\ analyzed' = analyzed + 1
    /\ \E decodable \in BOOLEAN, n \in 0..1, raw \in 1..MaxContourPts :
       \E approx \in 1..raw :
          IF decodable
          THEN /\ image_data' = ShapeType(n, raw, approx)
               /\ contours' = IF n = 0 THEN NoContours
                               ELSE [n |-> n, largest_contour |-> raw, approx |-> approx]
               /\ Goto(IF prog = "simple" THEN "s_copy" ELSE "create")
          ELSE /\ UNCHANGED <<image_data, contours>>
               /\ Raise("decode")
    /\ UNCHANGED <<args, conn, image_files, log, sleeps, api>>


\* ------------------------------------------- ImageTo3DPipeline: asset build
job == <<image_files, analyzed, sleeps, api>>

\* create_3d_model_from_image: the create_object command is sent.
create_3d_model_from_image ==
    /\ pc = "create"
    /\ SockSend("create_object", "create", Primitive(image_data))
    /\ Goto("create_wait")
    /\ UNCHANGED <<args, job, image_data, contours>>

CreateCheck_Ignored(result) == "continue"

\* create_3d_model_from_image: `if not result or result.get('status') !=
\* 'success': raise Exception("Failed to create 3D model")`.
CreateCheck(result) ==
    IF CheckResult(result) = "ok" THEN "continue"
    ELSE IF CheckResult(result) = "fail" THEN "create"
    ELSE "attribute"

create_3d_model_from_image_ret ==
    /\ pc = "create_wait"
    /\ \E r \in RecvOutcomes :
          /\ SockReturn(r)
          /\ IF CreateCheck(r.result) = "continue"
             THEN Goto("texture_copy")
             ELSE Raise(CreateCheck(r.result))
    /\ image_data' = NoShape  \* not read again
    /\ contours' = NoContours
    /\ UNCHANGED <<args, job>>

\* apply_image_texture: mkdir and shutil.copy2 of the image (may raise).
apply_image_texture_copy ==
    /\ pc = "texture_copy"
    /\ \E ok \in BOOLEAN : IF ok THEN Goto("texture") ELSE Raise("io")
    /\ UNCHANGED <<args, job, conn, image_data, contours, log>>

\* apply_image_texture: the apply_texture command is sent.
apply_image_texture ==
    /\ pc = "texture"
    /\ SockSend("apply_texture", "texture", "UV")
    /\ Goto("texture_wait")
    /\ UNCHANGED <<args, job, image_data, contours>>

\* apply_image_texture: on failure fall back to apply_material_color.
TextureCheck(result) ==
    IF CheckResult(result) = "ok" THEN "anim1"
    ELSE IF CheckResult(result) = "fail" THEN "material"
    ELSE "attribute"

apply_image_texture_ret ==
    /\ pc = "texture_wait"
    /\ \E r \in RecvOutcomes :
          /\ SockReturn(r)
          /\ IF TextureCheck(r.result) = "attribute"
             THEN Raise("attribute")
             ELSE Goto(TextureCheck(r.result))
    /\ UNCHANGED <<args, job, image_data, contours>>

\* apply_material_color: the apply_material command (color 0.8, 0.8, 0.8).
apply_material_color ==
    /\ pc = "material"
    /\ SockSend("apply_material", "material", "gray")
    /\ Goto("material_wait")
    /\ UNCHANGED <<args, job, image_data, contours>>

\* apply_material_color: the result is not looked at.
apply_material_color_ret ==
    /\ pc = "material_wait"
    /\ \E r \in RecvOutcomes : SockReturn(r)
    /\ Goto("anim1")
    /\ UNCHANGED <<args, job, image_data, contours>>

\* add_animations -> add_*_animation: the first add_animation command.
add_animations ==
    /\ pc = "anim1"
    /\ SockSend("add_animation", "animation", AnimationCommands(animation_type)[1])
    /\ Goto("anim1_wait")
    /\ UNCHANGED <<args, job, image_data, contours>>

\* The result is not looked at; a second command follows for dance.
add_animations_ret ==
    /\ pc = "anim1_wait"
    /\ \E r \in RecvOutcomes : SockReturn(r)
    /\ Goto(IF Len(AnimationCommands(animation_type)) > 1 THEN "anim2" ELSE "export_dir")
    /\ UNCHANGED <<args, job, image_data, contours>>

\* add_dance_animation: the rotation command.
add_dance_animation_rotation ==
    /\ pc = "anim2"
    /\ SockSend("add_animation", "animation", AnimationCommands(animation_type)[2])
    /\ Goto("anim2_wait")
    /\ UNCHANGED <<args, job, image_data, contours>>

add_dance_animation_rotation_ret ==
    /\ pc = "anim2_wait"
    /\ \E r \in RecvOutcomes : SockReturn(r)
    /\ Goto("export_dir")
    /\ UNCHANGED <<args, job, image_data, contours>>

\* export_model: theme_output_dir.mkdir(parents=True, exist_ok=True).
export_model_mkdir ==
    /\ pc = "export_dir"
    /\ \E ok \in BOOLEAN : IF ok THEN Goto("export") ELSE Raise("io")
    /\ UNCHANGED <<args, job, conn, image_data, contours, log>>

\* export_model: the export command, format USDZ.
export_model ==
    /\ pc = "export"
    /\ SockSend("export", "USDZ", "USDZ")
    /\ Goto("export_wait")
    /\ UNCHANGED <<args, job, image_data, contours>>

\* export_model: `raise Exception(f"Failed to export USDZ: {result}")`.
ExportCheck(result) ==
    IF CheckResult(result) = "ok" THEN "continue"
    ELSE IF CheckResult(result) = "fail" THEN "export"
    ELSE "attribute"

export_model_ret ==
    /\ pc = "export_wait"
    /\ \E r \in RecvOutcomes :
          /\ SockReturn(r)
          /\ IF ExportCheck(r.result) = "continue"
             THEN Goto("theme_config")
             ELSE Raise(ExportCheck(r.result))
    /\ UNCHANGED <<args, job, image_data, contours>>

\* update_theme_config: reads and writes <themes_dir>/<theme>.json (may raise).
update_theme_config ==
    /\ pc = "theme_config"
    /\ \E ok \in BOOLEAN : IF ok THEN Goto("swift") ELSE Raise("io")
    /\ UNCHANGED <<args, job, conn, image_data, contours, log>>

\* create_swift_integration (may raise), then the success is recorded:
\* results.append({... "status": "success"}) or main's success report.
create_swift_integration ==
    /\ pc = "swift"
    /\ \E ok \in BOOLEAN :
          IF ok
          THEN Succeed([stem |-> CurrentImage.stem, ext |-> "usdz"])
          ELSE Raise("io")
    /\ UNCHANGED <<args, job, conn, image_data, contours, log>>


\* --------------------------------------------- Simple3DPipeline: asset build
\* create_3d_model_from_image: mkdir and shutil.copy2 come first (may raise).
simple_create_copy ==
    /\ pc = "s_copy"
    /\ \E ok \in BOOLEAN : IF ok THEN Goto("s_create") ELSE Raise("io")
    /\ UNCHANGED <<args, job, conn, image_data, contours, log>>

\* create_3d_model_from_image: the execute_code command with the scene script.
simple_create ==
    /\ pc = "s_create"
    /\ SockSend("execute_code", "create", SimplePrimitive(image_data))
    /\ Goto("s_create_wait")
    /\ UNCHANGED <<args, job, image_data, contours>>

simple_create_ret ==
    /\ pc = "s_create_wait"
    /\ \E r \in RecvOutcomes :
          /\ SockReturn(r)
          /\ IF CreateCheck(r.result) = "continue"
             THEN Goto("s_anim")
             ELSE Raise(CreateCheck(r.result))
    /\ image_data' = NoShape  \* not read again
    /\ contours' = NoContours
    /\ UNCHANGED <<args, job>>

\* add_animations: one execute_code command with the animation script.
simple_add_animations ==
    /\ pc = "s_anim"
    /\ SockSend("execute_code", "animation", SimpleAnimationScript(animation_type))
    /\ Goto("s_anim_wait")
    /\ UNCHANGED <<args, job, image_data, contours>>

\* add_animations: a failure is only printed.
simple_add_animations_ret ==
    /\ pc = "s_anim_wait"
    /\ \E r \in RecvOutcomes :
          /\ SockReturn(r)
          /\ IF CheckResult(r.result) = "raise"
             THEN Raise("attribute")
             ELSE Goto("s_export_dir")
    /\ UNCHANGED <<args, job, image_data, contours>>

simple_export_mkdir ==
    /\ pc = "s_export_dir"
    /\ \E ok \in BOOLEAN : IF ok THEN Goto("s_export") ELSE Raise("io")
    /\ UNCHANGED <<args, job, conn, image_data, contours, log>>

\* export_model: the execute_code command with the USDZ export script.
simple_export_model ==
    /\ pc = "s_export"
    /\ SockSend("execute_code", "USDZ", "USDZ")
    /\ Goto("s_export_wait")
    /\ UNCHANGED <<args, job, image_data, contours>>

\* export_model: on failure `return self.export_as_glb(...)`.
SimpleExportCheck(result) ==
    IF CheckResult(result) = "ok" THEN "return"
    ELSE IF CheckResult(result) = "fail" THEN "glb"
    ELSE "attribute"

simple_export_model_ret ==
    /\ pc = "s_export_wait"
    /\ \E r \in RecvOutcomes :
          /\ SockReturn(r)
          /\ CASE SimpleExportCheck(r.result) = "return" ->
                     Succeed([stem |-> CurrentImage.stem, ext |-> "usdz"])
               [] SimpleExportCheck(r.result) = "glb" -> Goto("s_glb_dir")
               [] OTHER -> Raise("attribute")
    /\ UNCHANGED <<args, job, image_data, contours>>

simple_export_as_glb_mkdir ==
    /\ pc = "s_glb_dir"
    /\ \E ok \in BOOLEAN : IF ok THEN Goto("s_glb") ELSE Raise("io")
    /\ UNCHANGED <<args, job, conn, image_data, contours, log>>

\* export_as_glb: the execute_code command with the GLB export script.
simple_export_as_glb ==
    /\ pc = "s_glb"
    /\ SockSend("execute_code", "GLB", "GLB")
    /\ Goto("s_glb_wait")
    /\ UNCHANGED <<args, job, image_data, contours>>

\* export_as_glb: `raise Exception(f"Failed to export model: {result}")`.
simple_export_as_glb_ret ==
    /\ pc = "s_glb_wait"
    /\ \E r \in RecvOutcomes :
          /\ SockReturn(r)
          /\ IF ExportCheck(r.result) = "continue"
             THEN Succeed([stem |-> CurrentImage.stem, ext |-> "glb"])
             ELSE Raise(ExportCheck(r.result))
    /\ UNCHANGED <<args, job, image_data, contours>>

\* ------------------------------------------ create_medical_devices (assets)
\* devices: the 'type' of each entry of the list, in order.
devices == <<"cylinder", "cylinder", "cylinder", "sphere", "cube">>

\* create_cylinder / create_sphere / create_cube: primitive_type of the command.
DevicePrimitive(type) ==
    IF type = "cylinder" THEN "CYLINDER"
    ELSE IF type = "sphere" THEN "SPHERE"
    ELSE "CUBE"

\* `result and result.get('status') == 'success'`: "ok" when true, "fail"
\* when false, "raise" when result is a truthy JSON value without .get.
DeviceCheck(result) ==
    IF result = "success" THEN "ok"
    ELSE IF result = "nondict" THEN "raise"
    ELSE "fail"

still == <<args, image_files, analyzed, image_data, contours, calls>>

\* An exception nobody catches ends create_medical_devices (no close()).
Uncaught ==
    /\ pc' = "done"
    /\ raised' = TRUE
    /\ UNCHANGED <<results, idx, batch_failed, sleeps>>

Continue(p) == Goto(p) /\ UNCHANGED <<raised, sleeps>>

\* os.makedirs(output_dir, exist_ok=True) (may raise).
medical_makedirs ==
    /\ pc = "m_makedirs"
    /\ \E ok \in BOOLEAN : IF ok THEN Continue("m_loop") ELSE Uncaught
    /\ UNCHANGED <<still, conn, log>>

\* `for device in devices`, then client.close().
medical_next_device ==
    /\ pc = "m_loop"
    /\ IF idx <= Len(devices)
       THEN pc' = "m_create" /\ cmds' = <<>>
       ELSE pc' = "close" /\ cmds' = cmds
    /\ UNCHANGED <<still, command, conn, idx, results, batch_failed, raised, sleeps>>

\* client.create_cylinder / create_sphere / create_cube.
medical_create ==
    /\ pc = "m_create"
    /\ SockSend("create_object", "create", DevicePrimitive(devices[idx]))
    /\ Continue("m_create_wait")
    /\ UNCHANGED still

medical_create_ret ==
    /\ pc = "m_create_wait"
    /\ \E r \in RecvOutcomes :
          /\ SockReturn(r)
          /\ CASE DeviceCheck(r.result) = "ok" -> Continue("m_material")
               [] DeviceCheck(r.result) = "fail" -> Continue("m_delete")
               [] OTHER -> Uncaught
    /\ UNCHANGED still

\* client.apply_material(**material).
medical_apply_material ==
    /\ pc = "m_material"
    /\ SockSend("apply_material", "material", "device_material")
    /\ Continue("m_material_wait")
    /\ UNCHANGED still

medical_apply_material_ret ==
    /\ pc = "m_material_wait"
    /\ \E r \in RecvOutcomes :
          /\ SockReturn(r)
          /\ CASE DeviceCheck(r.result) = "ok" -> Continue("m_export")
               [] DeviceCheck(r.result) = "fail" -> Continue("m_delete")
               [] OTHER -> Uncaught
    /\ UNCHANGED still

\* client.export_usdz(usdz_path).
medical_export_usdz ==
    /\ pc = "m_export"
    /\ SockSend("export", "USDZ", "USDZ")
    /\ Continue("m_export_wait")
    /\ UNCHANGED still

medical_export_usdz_ret ==
    /\ pc = "m_export_wait"
    /\ \E r \in RecvOutcomes :
          /\ SockReturn(r)
          /\ IF DeviceCheck(r.result) = "raise" THEN Uncaught ELSE Continue("m_delete")
    /\ UNCHANGED still

\* client.delete_object(): the clean-up command; its result is dropped.
medical_delete_object ==
    /\ pc = "m_delete"
    /\ SockSend("delete_object", "delete", "none")
    /\ Continue("m_delete_wait")
    /\ UNCHANGED still

medical_delete_object_ret ==
    /\ pc = "m_delete_wait"
    /\ \E r \in RecvOutcomes : SockReturn(r)
    /\ Continue("m_sleep")
    /\ UNCHANGED still

\* time.sleep(1), then the next device.
medical_sleep ==
    /\ pc = "m_sleep"
    /\ sleeps' = sleeps + 1
    /\ idx' = idx + 1
    /\ pc' = "m_loop"
    /\ UNCHANGED <<still, conn, log, results, batch_failed, raised>>

\* ------------------------------------------------------------- environment
Running == pc \notin {"connect", "done"}

\* The engine answers the oldest command it has: a JSON document with status
\* success, another JSON object (or a falsy value), a truthy value that is no
\* object, short enough for one recv(4096) or longer than that.
EngineRespond ==
    /\ CanTransmit /\ Running
    /\ toEngine # <<>>
    /\ \E s \in {"success", "error", "nondict"}, long \in BOOLEAN :
          /\ long => (nlong < MaxLong /\ s # "nondict")
          /\ nlong' = IF long THEN nlong + 1 ELSE nlong
          /\ rxbuf' = rxbuf \o
                (IF long
                 THEN <<[part |-> "head", status |-> s, stale |-> Head(toEngine).stale],
                        [part |-> "tail", status |-> s, stale |-> Head(toEngine).stale]>>
                 ELSE <<[part |-> "whole", status |-> s, stale |-> Head(toEngine).stale]>>)
    /\ toEngine' = Tail(toEngine)
    /\ UNCHANGED <<args, pc, blender_client, link, oserror_at, image_files, idx,
                   results, batch_failed, image_data, contours, log, analyzed, sleeps, api>>

\* The connection breaks (engine gone, reset): later send/recv raise.
ConnectionLost ==
    /\ CanTransmit /\ Running
    /\ link' = "down"
    /\ toEngine' = <<>>
    /\ rxbuf' = <<>>
    /\ UNCHANGED <<args, pc, blender_client, nlong, oserror_at, image_files, idx,
                   results, batch_failed, image_data, contours, log, analyzed, sleeps, api>>

\* --------------------------------------------- driver of the client methods
\* Any caller of the pipeline object: connect_to_blender, send_blender_command
\* and close in any order.
rest == <<args, image_files, idx, results, batch_failed, image_data, contours, analyzed, sleeps>>

api_connect_to_blender ==
    /\ pc = "api" /\ Len(calls) < MaxCalls
    /\ \E o \in ConnectOutcomes :
          /\ ConnectOutcome(o)
          /\ calls' = Append(calls, IF o = "ok" THEN "connect" ELSE "connect_failed")
    /\ raised' = raised
    /\ UNCHANGED <<rest, pc, log>>

api_send_blender_command ==
    /\ pc = "api" /\ Len(calls) < MaxCalls
    /\ SockSend("create_object", "create", "CUBE")
    /\ pc' = "api_wait"
    /\ calls' = Append(calls, "send")
    /\ raised' = raised
    /\ UNCHANGED rest

api_send_blender_command_ret ==
    /\ pc = "api_wait"
    /\ \E r \in RecvOutcomes : SockReturn(r)
    /\ pc' = "api"
    /\ UNCHANGED <<rest, api>>

api_close ==
    /\ pc = "api" /\ Len(calls) < MaxCalls
    /\ CloseSocket
    /\ calls' = Append(calls, "close")
    /\ raised' = (raised \/ CloseEffect(blender_client).raises)
    /\ UNCHANGED <<rest, pc, log>>

\* ------------------------------------------------------------ specification
Next ==
    \/ connect_to_blender
    \/ process_batch_images_glob
    \/ process_batch_images_next
    \/ batch_process_report
    \/ close
    \/ analyze_image
    \/ create_3d_model_from_image
    \/ create_3d_model_from_image_ret
    \/ apply_image_texture_copy
    \/ apply_image_texture
    \/ apply_image_texture_ret
    \/ apply_material_color
    \/ apply_material_color_ret
    \/ add_animations
    \/ add_animations_ret
    \/ add_dance_animation_rotation
    \/ add_dance_animation_rotation_ret
    \/ export_model_mkdir
    \/ export_model
    \/ export_model_ret
    \/ update_theme_config
    \/ create_swift_integration
    \/ simple_create_copy
    \/ simple_create
    \/ simple_create_ret
    \/ simple_add_animations
    \/ simple_add_animations_ret
    \/ simple_export_mkdir
    \/ simple_export_model
    \/ simple_export_model_ret
    \/ simple_export_as_glb_mkdir
    \/ simple_export_as_glb
    \/ simple_export_as_glb_ret
    \/ EngineRespond
    \/ ConnectionLost
    \/ api_connect_to_blender
    \/ api_send_blender_command
    \/ api_send_blender_command_ret
    \/ api_close
    \/ medical_makedirs
    \/ medical_next_device
    \/ medical_create
    \/ medical_create_ret
    \/ medical_apply_material
    \/ medical_apply_material_ret
    \/ medical_export_usdz
    \/ medical_export_usdz_ret
    \/ medical_delete_object
    \/ medical_delete_object_ret
    \/ medical_sleep

Spec == Init /\ [][Next]_vars

\* The interpreter runs the next statement of the sequential program, and a
\* blocking recv() returns: the engine answers or the connection breaks.
FairSpec == Spec /\ WF_vars(Next)


\* ================================================================== claims
AnyPipeline == prog \in {"batch", "single", "simple"}

\* A job has just been recorded: cmds is its command log and the last entry
\* of results its outcome (until the next image is taken).
JobDone ==
    /\ AnyPipeline
    /\ results # <<>>
    /\ pc \in {"loop", "report", "close", "done"}

LastJob == results[Len(results)]

ImagePipeline == prog \in {"batch", "single"}

Types == [i \in 1..Len(cmds) |-> cmds[i].type]

AllSuccess == \A i \in 1..Len(cmds) : cmds[i].result = "success"

NoneFailed == \A i \in 1..Len(cmds) : cmds[i].result # "failed"

IsPrefix(s, t) == Len(s) <= Len(t) /\ \A i \in 1..Len(s) : s[i] = t[i]

\* C1 as stated: with every command answered success, the commands of a
\* finished ImageTo3DPipeline job are create_object, one texture-or-material
\* command, one add_animation, one export.
C1_OneAnimationCommand ==
    (ImagePipeline /\ JobDone /\ LastJob.status = "success" /\ AllSuccess)
        => /\ Len(cmds) = 4
           /\ cmds[1].type = "create_object"
           /\ cmds[2].type \in {"apply_texture", "apply_material"}
           /\ cmds[3].type = "add_animation"
           /\ cmds[4].type = "export"

\* The number of add_animation commands of a kind, as the amended C1 states it.
C1_AnimationCount(kind) == IF kind \in {"bounce", "spin", "pulse"} THEN 1 ELSE 2

C1_Expected(kind) ==
    <<"create_object", "apply_texture">>
        \o [i \in 1..C1_AnimationCount(kind) |-> "add_animation"]
        \o <<"export">>

\* C1 (amended): in ImageTo3DPipeline, as long as every command of the job is
\* answered success, the commands sent are, in this order and with nothing in
\* between: one create_object, one apply_texture, the add_animation commands
\* of the kind (two for dance and for an unrecognized kind, one for bounce,
\* spin and pulse), one export; a job recorded as success has sent all of them.
C1_CommandSequence ==
    ImagePipeline =>
        /\ NoneFailed => IsPrefix(Types, C1_Expected(animation_type))
        /\ (JobDone /\ LastJob.status = "success" /\ AllSuccess)
               => Types = C1_Expected(animation_type)

C1_Witness ==
    /\ prog = "batch" /\ JobDone /\ LastJob.status = "success" /\ AllSuccess
    /\ Len(cmds) = 5

\* C2: when the answer to the create command (the first command of a job) is
\* not a success, the job is recorded as failed with no artifact, and no other
\* command is sent for that image.
C2_CreateFailureIsFatal ==
    (AnyPipeline /\ cmds # <<>> /\ cmds[1].result = "failed")
        => /\ Len(cmds) = 1
           /\ JobDone
           /\ LastJob.status = "failed"
           /\ LastJob.usdz = NoPath
           /\ LastJob.image = (IF prog = "batch" THEN image_files[Len(results)] ELSE folder[1])

C2_Witness ==
    /\ prog = "batch" /\ JobDone /\ Len(results) = 2
    /\ cmds # <<>> /\ cmds[1].result = "failed"
    /\ LastJob.error = "create"


\* The job's failure, if any, is a command failure: no local file operation
\* and no malformed (non-object) response raised, and no response was longer
\* than the receive buffer.
CommandFailuresOnly == LastJob.error \notin {"io", "attribute"} /\ nlong = 0

\* The primary export of the job was answered with a failure and every other
\* command of the job with success.
OnlyPrimaryExportFailed ==
    \E i \in 1..Len(cmds) :
        /\ cmds[i].what = "USDZ" /\ cmds[i].result = "failed"
        /\ \A j \in 1..Len(cmds) : j # i => cmds[j].result = "success"

\* C3 as stated: when the engine fails only the primary (USDZ) export of a
\* job, the job ends as success and its artifact has the fallback extension.
C3_FallbackArtifact ==
    (AnyPipeline /\ JobDone /\ CommandFailuresOnly /\ OnlyPrimaryExportFailed)
        => (LastJob.status = "success" /\ LastJob.usdz.ext = "glb")

Exports == {i \in 1..Len(cmds) : cmds[i].what \in {"USDZ", "GLB"}}

FailedExport(fmt) ==
    \E i \in 1..Len(cmds) : cmds[i].what = fmt /\ cmds[i].result = "failed"

\* C4 as stated: the GLB export is requested only after the USDZ export of the
\* job failed, at most once, a job sends at most two export commands, and a
\* job whose create command succeeded fails exactly when both exports failed.
C4_FailsOnlyAfterFallback ==
    AnyPipeline =>
        /\ \A i \in 1..Len(cmds) : cmds[i].what = "GLB" =>
               \E j \in 1..(i - 1) : cmds[j].what = "USDZ" /\ cmds[j].result = "failed"
        /\ Cardinality({i \in 1..Len(cmds) : cmds[i].what = "GLB"}) <= 1
        /\ Cardinality(Exports) <= 2
        /\ (JobDone /\ CommandFailuresOnly /\ cmds # <<>> /\ cmds[1].result = "success")
               => (LastJob.status = "failed" <=> (FailedExport("USDZ") /\ FailedExport("GLB")))

InJob ==
    pc \notin {"connect", "glob", "loop", "analyze", "report", "close", "done"}

\* C5: in a batch a failed job never keeps the next one from starting: every
\* image of the batch is analysed and gets its own report entry, in order,
\* whatever failed before it; the batch ends only after the last image.
C5_BatchContinues ==
    prog = "batch" =>
        /\ \A k \in 1..Len(results) : results[k].image = image_files[k]
        /\ InJob => (analyzed = idx /\ Len(results) = idx - 1)
        /\ pc \in {"loop", "analyze"} => (analyzed = idx - 1 /\ Len(results) = idx - 1)
        /\ pc \in {"report", "close", "done"} =>
               (analyzed = Len(image_files) /\ Len(results) = Len(image_files))

C5_Witness ==
    /\ prog = "batch" /\ pc = "done" /\ Len(results) = 3
    /\ results[1].status = "success"
    /\ results[2].status = "failed" /\ results[2].error = "decode"
    /\ results[3].status = "success"

\* C6 as stated: once the connection succeeded, the batch ends with a report
\* of one entry per image the entry point found (png, jpg, jpeg), in that order.
C6_EntryPerFoundImage ==
    (prog = "batch" /\ pc = "done" /\ blender_client = "closed")
        => /\ ~batch_failed
           /\ Len(results) = Len(EntryImageFiles(folder))
           /\ \A i \in 1..Len(results) :
                  /\ results[i].image = EntryImageFiles(folder)[i]
                  /\ results[i].status \in {"success", "failed"}

\* C7: when the connection attempt fails, the run returns at once: no image is
\* analysed, no command is handed to send_blender_command, nothing is written
\* to the socket and no job is recorded.
C7_NoWorkWithoutConnection ==
    (AnyPipeline /\ blender_client \in {"none", "unconnected"})
        => /\ pc \in {"connect", "done"}
           /\ analyzed = 0
           /\ cmds = <<>>
           /\ toEngine = <<>>
           /\ results = <<>>

C7_Witness ==
    prog = "batch" /\ pc = "done" /\ blender_client = "unconnected"

\* C8 as stated: after a send of job k hit a transport failure, no later job
\* of the batch is started (no further image is analysed).
C8_TransportFailureEndsBatch ==
    (prog = "batch" /\ oserror_at >= 0) => analyzed = oserror_at

\* C9 as stated: during a pipeline run at most one command is in flight (sent
\* and not yet answered by the engine).
C9_OneCommandInFlight ==
    AnyPipeline => Len(toEngine) <= 1

\* C10: close() never raises and leaves the client closed (or without a
\* socket when none was ever created), and a close() that follows a close()
\* changes nothing: any number of calls leaves the state of a single one.
C10_CloseIdempotent ==
    [][(/\ prog = "api"
        /\ Len(calls') = Len(calls) + 1
        /\ calls'[Len(calls')] = "close")
          => /\ ~raised'
             /\ blender_client' = (IF blender_client = "none" THEN "none" ELSE "closed")
             /\ (calls # <<>> /\ calls[Len(calls)] = "close")
                    => /\ blender_client' = blender_client
                       /\ link' = link
                       /\ toEngine' = toEngine
                       /\ rxbuf' = rxbuf]_vars

C10_Witness ==
    /\ calls = <<"close", "connect_failed", "close", "close">>
    /\ blender_client = "closed"
    /\ ~raised

\* A send_blender_command call made right after a close() has returned.
SentAfterClose ==
    /\ prog = "api" /\ pc = "api"
    /\ Len(calls) >= 2
    /\ calls[Len(calls)] = "send"
    /\ calls[Len(calls) - 1] = "close"

\* C11 as stated: a send that follows close() fails with an error raised to
\* the caller (a ConnectionError), not with an ordinary failed result.
C11_SendAfterCloseRaises ==
    SentAfterClose => raised

TextureAt == {i \in 1..Len(cmds) : cmds[i].type = "apply_texture"}

MaterialAt == {i \in 1..Len(cmds) : cmds[i].type = "apply_material"}

\* C12 as stated: a failed apply_texture is followed by exactly one
\* apply_material (flat gray) and the job is not failed by it; whatever the
\* fallback's answer, the build goes on to animation and export; a successful
\* apply_texture is followed by no apply_material.
C12_TextureFallback ==
    ImagePipeline =>
        /\ Cardinality(MaterialAt) <= 1
        /\ \A i \in MaterialAt :
               /\ i > 1 /\ cmds[i - 1].type = "apply_texture"
               /\ cmds[i - 1].result = "failed"
               /\ cmds[i].result # "pending" =>
                      IF Len(cmds) = i THEN pc = "anim1"
                      ELSE cmds[i + 1].type = "add_animation"
        /\ pc = "material_wait" => command = [type |-> "apply_material", arg |-> "gray"]
        /\ \A i \in TextureAt : cmds[i].result = "failed" =>
               IF Len(cmds) = i THEN pc = "material"
               ELSE cmds[i + 1].type = "apply_material"
        /\ (JobDone /\ TextureAt # {} /\ LastJob.error # "io") =>
               \E i \in 1..Len(cmds) : cmds[i].type = "export"

AnimationAt == {i \in 1..Len(cmds) : cmds[i].what = "animation"}

\* C13 as stated: in both pipelines, once an animation command was sent, the
\* job (local file errors aside) always sends its export command, whatever
\* the animation commands were answered, and it succeeds exactly when an
\* export command was answered with success.
C13_AnimationNeverFatal ==
    (AnyPipeline /\ JobDone /\ AnimationAt # {} /\ LastJob.error # "io")
        => /\ \E i \in 1..Len(cmds) : cmds[i].what = "USDZ"
           /\ LastJob.status = "success"
                  <=> \E i \in Exports : cmds[i].result = "success"

\* An export command of the current job was answered with success.
ExportedOk == \E i \in Exports : cmds[i].result = "success"

\* C14 as stated: a job gets one terminal status, success or failed, which is
\* never changed afterwards, and it is recorded as success exactly when one
\* of its export commands was answered with success.
C14_SucceededIffExported ==
    [][/\ IsPrefix(results, results')
       /\ Len(results') <= Len(results) + 1
       /\ \A k \in 1..Len(results') : results'[k].status \in {"success", "failed"}
       /\ (AnyPipeline /\ JobDone') =>
              ((LastJob.status = "success")' <=> ExportedOk')]_vars

\* C15: in the report of a batch a failed entry has no artifact path and an
\* error detail, a success entry has an artifact path and no error detail.
C15_ReportEntryShape ==
    prog = "batch" =>
        \A k \in 1..Len(results) :
            /\ results[k].status = "failed" =>
                   (results[k].usdz = NoPath /\ results[k].error # "null")
            /\ results[k].status = "success" =>
                   (results[k].usdz # NoPath /\ results[k].error = "null")

C15_Witness ==
    /\ prog = "batch" /\ pc = "done" /\ Len(results) = 2
    /\ results[1].status = "failed" /\ results[1].error = "export"
    /\ results[2].status = "success" /\ results[2].usdz.ext = "usdz"

\* C16 as stated: a finished ImageTo3DPipeline job one of whose commands
\* failed (fatal or not) carries an error detail in its report entry.
C16_FailuresAttached ==
    (ImagePipeline /\ JobDone /\ \E i \in 1..Len(cmds) : cmds[i].result = "failed")
        => LastJob.error # "null"

\* A send_blender_command call returns to its caller in this step.
SendReturns == command # NoCommand /\ command' = NoCommand

\* C17: a send_blender_command call whose recv(4096) gets a piece of a
\* response longer than the buffer (the truncated head, or the tail left
\* behind) reports its command as failed, whatever status the response carried.
C17_TruncatedResponseFails ==
    [][(SendReturns /\ CanTransmit /\ rxbuf # <<>> /\ rxbuf[1].part # "whole")
          => cmds'[Len(cmds')].result = "failed"]_vars

C17_Witness ==
    /\ prog = "single" /\ pc = "material" /\ nlong = 1
    /\ Len(cmds) = 2 /\ cmds[2].result = "failed"
    /\ rxbuf = <<[part |-> "tail", status |-> "success", stale |-> TRUE]>>

\* The geometry table of the specification.
C18_Geometry(shape) ==
    CASE shape = "triangle" -> "CONE"
      [] shape = "circle" -> "SPHERE"
      [] shape = "rectangle" -> "CUBE"
      [] shape = "complex" -> "CYLINDER_r0.5_h1.5"

\* C18 as stated: in both pipelines the create command sent for an image
\* carries the geometry the table gives for the image's shape class.
C18_GeometryTable ==
    pc \in {"create_wait", "s_create_wait"} => command.arg = C18_Geometry(image_data)

\* C19 as stated: for a kind that is none of dance, bounce, spin, pulse, both
\* pipelines send the animation command(s) they send for dance.
C19_UnrecognizedAsDance ==
    (AnyPipeline /\ animation_type \notin {"dance", "bounce", "spin", "pulse"}) =>
        /\ pc = "anim1_wait" => command.arg = AnimationCommands("dance")[1]
        /\ pc = "anim2_wait" => command.arg = AnimationCommands("dance")[2]
        /\ pc = "export_dir" => Cardinality(AnimationAt) = Len(AnimationCommands("dance"))
        /\ pc = "s_anim_wait" => command.arg = SimpleAnimationScript("dance")

\* The class the specification gives to a polygon approximation of v vertices.
C20_Class(v) ==
    IF v = 3 THEN "triangle"
    ELSE IF v = 4 THEN "rectangle"
    ELSE IF v > 4 THEN "complex"
    ELSE "circle"

\* C20 as stated: when a contour was found, the shape class of the image is
\* the class of the vertex count of the largest contour's polygon
\* approximation, whatever the number of points of the raw contour.
C20_ClassByApproximation ==
    (image_data # NoShape /\ contours.n > 0) => image_data = C20_Class(contours.approx)

\* C21 as stated: every job of a batch sends the animation commands of the
\* kind the caller asked for.
C21_BatchUsesRequestedKind ==
    prog = "batch" =>
        /\ pc = "anim1_wait" => command.arg = AnimationCommands(argv_animation)[1]
        /\ pc = "export_dir" =>
               Cardinality(AnimationAt) = Len(AnimationCommands(argv_animation))

\* What analyze_image may find in the same picture at twice the resolution:
\* a contour is found again and its polygon approximation (tolerance 2% of
\* the perimeter) keeps its vertex count, while the chain of points of the
\* raw contour can only get longer.
Doubled(c) ==
    {[c EXCEPT !.largest_contour = r] : r \in c.largest_contour..MaxContourPts}

\* C22 as stated: the picture at twice the resolution gets the shape class
\* of the original.
C22_ScaleInvariant ==
    (image_data # NoShape /\ contours.n > 0) =>
        \A d \in Doubled(contours) :
            ShapeType(d.n, d.largest_contour, d.approx) = image_data

\* C23 as stated: the bytes a send_blender_command call takes from the socket
\* were all produced by the engine in answer to that call's command: none of
\* them was left over from, or answers, a command of an earlier call.
C23_OwnResponseOnly ==
    [][(SendReturns /\ CanTransmit) =>
          \A i \in 1..(Len(rxbuf) - Len(rxbuf')) : ~rxbuf[i].stale]_vars

FourKinds == {"dance", "bounce", "spin", "pulse"}

\* The schedule the specification gives each kind, as add_animation commands
\* (ImageTo3DPipeline) and as the curves of the script (Simple3DPipeline).
C24_Commands(kind) ==
    CASE kind = "dance" -> <<"scale_0_15_30", "rotation_0_30_60">>
      [] kind = "bounce" -> <<"location_0_15_30">>
      [] kind = "spin" -> <<"rotation_0_60">>
      [] kind = "pulse" -> <<"scale_0_20_40">>

C24_Script(kind) ==
    CASE kind = "dance" -> "scale_rotation_script"
      [] kind = "bounce" -> "location_script"
      [] kind = "spin" -> "rotation_script"
      [] kind = "pulse" -> "scale_script"

\* C24 as stated: in both pipelines each of the four kinds sends its own
\* schedule (dance: scale and rotation sway, bounce: z-translation, spin:
\* rotation 0 to 360 over frames 0 to 60, pulse: scale only), so spin and
\* pulse never send what dance sends.
C24_OwnSchedule ==
    (AnyPipeline /\ animation_type \in FourKinds) =>
        /\ pc = "anim1_wait" => command.arg = C24_Commands(animation_type)[1]
        /\ pc = "anim2_wait" =>
               /\ Len(C24_Commands(animation_type)) = 2
               /\ command.arg = C24_Commands(animation_type)[2]
        /\ pc = "export_dir" =>
               Cardinality(AnimationAt) = Len(C24_Commands(animation_type))
        /\ pc = "s_anim_wait" =>
               /\ command.arg = C24_Script(animation_type)
               /\ animation_type # "dance" => command.arg # SimpleAnimationScript("dance")

\* C25 as stated: a delay is taken between consecutive successful asset
\* creations: in create_medical_devices before every device after the first,
\* in the image batch between two successive jobs that both succeeded.
C25_DelayBetweenAssets ==
    /\ (prog = "medical" /\ pc = "m_create_wait") => sleeps >= idx - 1
    /\ prog = "batch" =>
           \A k \in 1..(Len(results) - 1) :
               (results[k].status = "success" /\ results[k + 1].status = "success")
                   => sleeps >= k

\* The value the send_blender_command call returning in this step returns.
Returned ==
    IF ~CanTransmit THEN "none"
    ELSE Decode(SubSeq(rxbuf, 1, Len(rxbuf) - Len(rxbuf')))

\* What each call site does with a response whose status is not success:
\* the position it goes to, or "raise" where it raises its own exception.
C26_OnFailure(p) ==
    CASE p \in {"create_wait", "export_wait", "s_create_wait", "s_glb_wait"} -> {"raise"}
      [] p = "texture_wait" -> {"material"}
      [] p = "material_wait" -> {"anim1"}
      [] p = "anim1_wait" -> {"anim2", "export_dir"}
      [] p = "anim2_wait" -> {"export_dir"}
      [] p = "s_anim_wait" -> {"s_export_dir"}
      [] p = "s_export_wait" -> {"s_glb_dir"}
      [] p \in {"m_create_wait", "m_material_wait", "m_export_wait"} -> {"m_delete"}
      [] p = "m_delete_wait" -> {"m_sleep"}
      [] p = "api_wait" -> {"api"}

\* C26: send_blender_command always returns to its caller, with the decoded
\* response or None, whatever the state of the client; and a call site given
\* None does what it does for a response whose status is not success.
C26_SendNeverRaises ==
    [][SendReturns =>
          /\ prog = "api" => (~raised' /\ pc' = "api")
          /\ cmds'[Len(cmds')].result \in {"success", "failed"}
          /\ Returned \in {"none", "error"} =>
                 /\ raised' = raised
                 /\ IF C26_OnFailure(pc) = {"raise"}
                    THEN /\ Len(results') = Len(results) + 1
                         /\ results'[Len(results')].status = "failed"
                         /\ results'[Len(results')].error \in {"create", "export"}
                    ELSE pc' \in C26_OnFailure(pc)]_vars

C26_Witness ==
    /\ prog = "api" /\ pc = "api" /\ ~raised
    /\ calls = <<"send", "connect_failed", "send", "close">>
    /\ Len(cmds) = 2 /\ cmds[1].result = "failed" /\ cmds[2].result = "failed"

\* C27 as stated: in a batch report no two succeeded jobs (of two distinct
\* input images) have the same artifact path.
C27_DistinctArtifacts ==
    prog = "batch" =>
        \A i, j \in 1..Len(results) :
            (i < j /\ results[i].status = "success" /\ results[j].status = "success")
                => /\ results[i].image # results[j].image
                   /\ results[i].usdz # results[j].usdz

DeviceOrder == <<"create_object", "apply_material", "export">>

Deleted == cmds # <<>> /\ cmds[Len(cmds)].type = "delete_object"

\* The commands of the current device that come before its delete_object.
BeforeDelete == IF Deleted THEN SubSeq(cmds, 1, Len(cmds) - 1) ELSE cmds

\* The commands of a device are a prefix of create, apply_material, export,
\* each sent only after the success of the one before it.
C28_Prefix ==
    /\ Len(BeforeDelete) <= Len(DeviceOrder)
    /\ \A i \in 1..Len(BeforeDelete) :
          /\ BeforeDelete[i].type = DeviceOrder[i]
          /\ i > 1 => BeforeDelete[i - 1].result = "success"
    /\ Deleted => BeforeDelete # <<>> /\ BeforeDelete[Len(BeforeDelete)].result # "pending"

\* C28 as stated: in create_medical_devices the commands of every device are
\* a prefix of [create, apply_material, export] followed by exactly one
\* delete_object, which is sent whatever the outcome of the device: once a
\* device is left (delay, next device, close, end of the run) its last
\* command is delete_object.
C28_DeviceCommands ==
    prog = "medical" =>
        /\ C28_Prefix
        /\ (pc \in {"m_sleep", "m_loop", "close", "done"} /\ cmds # <<>>) => Deleted

\* The connection of a connected run of main / batch_process gets closed.
C29_Closes == (ImagePipeline /\ blender_client = "open") ~> (blender_client = "closed")

\* Once closed, the run has ended: no command is sent any more.
C29_Silent ==
    [][(ImagePipeline /\ blender_client = "closed")
          => (cmds' = cmds /\ command' = command /\ toEngine' = toEngine)]_vars

Sent(type) == Cardinality({i \in 1..Len(cmds) : cmds[i].type = type})

\* No command of a job is sent again.
C30_PerJob ==
    /\ Sent("create_object") <= 1
    /\ Sent("apply_texture") <= 1
    /\ Sent("apply_material") <= 1
    /\ Sent("add_animation") <= 2
    /\ Sent("export") <= 1
    /\ Len(cmds) <= 6
    /\ \A i \in 1..Len(cmds) :
          cmds[i].type \in {"create_object", "apply_texture", "apply_material",
                            "add_animation", "export"}

\* The loop takes the images in order, one job each.
C30_OneVisit ==
    /\ analyzed <= Len(image_files)
    /\ Len(results) <= analyzed
    /\ \A i \in 1..Len(results) : results[i].image = image_files[i]
    /\ pc \in {"report", "close", "done"}
          => (analyzed = Len(image_files) /\ Len(results) = Len(image_files))

\* C30: provided every send returns, a batch over n images terminates after
\* a bounded number of commands: no command is retried, a job sends at most
\* one create_object, one apply_texture, one apply_material, two
\* add_animation and one export, and the loop visits each image exactly once.
C30_BoundedBatch ==
    /\ (prog = "batch") ~> (pc = "done")
    /\ [](prog = "batch" => (C30_PerJob /\ C30_OneVisit))

\* A finished batch over three images whose last job sent all six commands.
C30_Witness ==
    /\ prog = "batch" /\ pc = "done"
    /\ Len(image_files) = 3 /\ Len(results) = 3
    /\ Len(cmds) = 6 /\ Sent("apply_material") = 1 /\ Sent("add_animation") = 2

====
